---- MODULE Spec2Model ----
(***************************************************************************)
(* Model of the SDR control terminal (src/src/tui.rs, src/src/main.rs):    *)
(* the App state, its key handler, the synthetic signal generator and the  *)
(* event loop of run_app, wrapped in the terminal set-up and tear-down of  *)
(* run_tui and main.                                                       *)
(*                                                                         *)
(* Units.  frequency is held in MHz (the code's f64 Hz value divided by    *)
(* 1e6), sample_rate in units of 0.1 MS/s (Hz divided by 1e5) and gain in  *)
(* dB.  Every value the code can produce for these fields is an integer    *)
(* number of Hz below 2^53, so the f64 arithmetic of adjust_parameter is   *)
(* exact and integer arithmetic in these units is the same arithmetic.     *)
(*                                                                         *)
(* f32 values (spectrum powers, sample amplitudes and phases) are modelled *)
(* bit-exactly as records [s, m, e] standing for (-1)^s * m * 2^e with     *)
(* 2^23 <= m < 2^24 (or m = 0 for zero), with IEEE-754 round-to-nearest-   *)
(* even in every operation.  A Complex32 sample is held in polar form      *)
(* [amp, phase]: it stands for Complex32::new(amp*cos(phase),              *)
(* amp*sin(phase)); cos and sin are not evaluated.                         *)
(***************************************************************************)
EXTENDS Integers, Sequences, FiniteSets, TLC

(***************************************************************************)
(* f32 arithmetic                                                          *)
(***************************************************************************)
F32Zero == [s |-> 0, m |-> 0, e |-> 0]

F32Pack(s, m, e) == [s |-> s, m |-> m, e |-> e]

IsZero(a) == a.m = 0

\* q shifted right by d bits, the bits shifted out OR-ed into the lowest bit
ShiftRightSticky(q, d) ==
  IF d = 0 THEN q
  ELSE IF d >= 28 THEN (IF q = 0 THEN 0 ELSE 1)
  ELSE LET t == q \div (2^d)
           lost == (q % (2^d)) # 0
       IN IF lost /\ t % 2 = 0 THEN t + 1 ELSE t

\* M (27 bits: 24 of mantissa, guard, round, sticky) in [2^26, 2^27), value M * 2^e:
\* round to nearest, ties to even
RoundPack(s, M, e) ==
  LET mant == M \div 8
      rem  == M % 8
      up   == rem > 4 \/ (rem = 4 /\ mant % 2 = 1)
      r    == IF up THEN mant + 1 ELSE mant
  IN IF r = 2^24 THEN F32Pack(s, 2^23, e + 4) ELSE F32Pack(s, r, e + 3)

RECURSIVE NormLeft(_, _, _)
\* M in (0, 2^27) whose discarded bits are all zero when M < 2^26
NormLeft(s, M, e) ==
  IF M >= 2^26 THEN RoundPack(s, M, e) ELSE NormLeft(s, 2 * M, e - 1)

\* the f32 nearest to the integer n * 2^e, for 0 <= n < 2^27
FromInt(n, e) == IF n = 0 THEN F32Zero ELSE NormLeft(0, n, e)

Neg(a) == IF IsZero(a) THEN a ELSE [a EXCEPT !.s = 1 - a.s]

Abs(a) == [a EXCEPT !.s = 0]

\* |a| < |b|
MagLess(a, b) ==
  IF IsZero(b) THEN FALSE
  ELSE IF IsZero(a) THEN TRUE
  ELSE a.e < b.e \/ (a.e = b.e /\ a.m < b.m)

\* a < b
Less(a, b) ==
  IF a.s = 0 /\ b.s = 0 THEN MagLess(a, b)
  ELSE IF a.s = 1 /\ b.s = 1 THEN MagLess(b, a)
  ELSE a.s = 1 /\ ~(IsZero(a) /\ IsZero(b))

LessEq(a, b) == ~Less(b, a)

\* f32::max and f32::min (no NaN arises in this program)
FMax(a, b) == IF Less(a, b) THEN b ELSE a

FMin(a, b) == IF Less(b, a) THEN b ELSE a

\* a + b for |a| >= |b|, both non-zero
AddOrdered(a, b) ==
  LET d  == a.e - b.e
      A3 == a.m * 8
      B3 == ShiftRightSticky(b.m * 8, d)
  IN IF a.s = b.s
       THEN LET S == A3 + B3
            IN IF S >= 2^27 THEN RoundPack(a.s, ShiftRightSticky(S, 1), a.e - 2)
                            ELSE RoundPack(a.s, S, a.e - 3)
       ELSE LET D == A3 - B3
            IN IF D = 0 THEN F32Zero ELSE NormLeft(a.s, D, a.e - 3)

Add(a, b) ==
  IF IsZero(a) THEN b
  ELSE IF IsZero(b) THEN a
  ELSE IF MagLess(a, b) THEN AddOrdered(b, a) ELSE AddOrdered(a, b)

Sub(a, b) == Add(a, Neg(b))

\* a * b: the 48-bit product of the mantissas in two 24-bit halves HI, LO
Mul(a, b) ==
  IF IsZero(a) \/ IsZero(b) THEN F32Zero
  ELSE LET a1  == a.m \div 4096
           a0  == a.m % 4096
           b1  == b.m \div 4096
           b0  == b.m % 4096
           mid == a1 * b0 + a0 * b1
           t   == (mid % 4096) * 4096 + a0 * b0
           LO  == t % (2^24)
           HI  == a1 * b1 + (mid \div 4096) + (t \div (2^24))
           sg  == IF a.s = b.s THEN 0 ELSE 1
       IN IF HI >= 2^23
            THEN LET q == HI * 8 + (LO \div (2^21))
                     lost == (LO % (2^21)) # 0
                 IN RoundPack(sg, IF lost /\ q % 2 = 0 THEN q + 1 ELSE q,
                              a.e + b.e + 21)
            ELSE LET q == HI * 16 + (LO \div (2^20))
                     lost == (LO % (2^20)) # 0
                 IN RoundPack(sg, IF lost /\ q % 2 = 0 THEN q + 1 ELSE q,
                              a.e + b.e + 20)

RECURSIVE ScaleUp(_, _, _)
\* <<n', e'>> with n' * 2^e' = n * 2^e and d <= n'
ScaleUp(n, d, e) == IF n >= d THEN <<n, e>> ELSE ScaleUp(2 * n, d, e - 1)

RECURSIVE ScaleDown(_, _, _)
\* <<d', e'>> with n / d' * 2^e' = n / d * 2^e and n < 2 d'
ScaleDown(n, d, e) == IF n < 2 * d THEN <<d, e>> ELSE ScaleDown(n, 2 * d, e + 1)

RECURSIVE DivBits(_, _, _, _)
\* long division: k more quotient bits appended to q, remainder r < d
DivBits(q, r, d, k) ==
  IF k = 0 THEN <<q, r>>
  ELSE IF 2 * r >= d THEN DivBits(2 * q + 1, 2 * r - d, d, k - 1)
                     ELSE DivBits(2 * q, 2 * r, d, k - 1)

\* the f32 nearest to the rational n / d (n >= 0, d > 0): a decimal literal,
\* or a quotient computed in f64 and narrowed "as f32"
Ratio(n, d) ==
  IF n = 0 THEN F32Zero
  ELSE LET up == ScaleUp(n, d, 0)
           dn == ScaleDown(up[1], d, up[2])
           qr == DivBits(1, up[1] - dn[1], dn[1], 26)
           q  == qr[1]
       IN RoundPack(0, IF qr[2] # 0 /\ q % 2 = 0 THEN q + 1 ELSE q, dn[2] - 26)

F32One == F32Pack(0, 2^23, -23)

(***************************************************************************)
(* Program constants                                                       *)
(***************************************************************************)
\* the three tabs: 0 Frequency, 1 Gain, 2 Sample rate (on_key's "% 3")
NUM_TABS == 3

\* App::new: 890e6 Hz, 1e6 S/s, 20 dB, vec![0.0; 512]
FREQ_INIT == 890
RATE_INIT == 10
GAIN_INIT == 20
SPECTRUM_LEN == 512

\* adjust_parameter: steps and clamps (MHz, dB, 0.1 MS/s)
FREQ_STEP == 1
FREQ_MIN == 1
FREQ_MAX == 6000
GAIN_STEP == 1
GAIN_MIN == 0
GAIN_MAX == 60
RATE_STEP == 1
RATE_MIN == 1
RATE_MAX == 100

\* batch sizes: mock_stream_samples "0..100", simulate_streaming_data "0..20"
\* times, in units of 10 ms: the poll timeout and the throttle period
POLL_TIMEOUT == 10
THROTTLE == 5

START_BATCH == 100
TICK_BATCH == 20

\* the status texts
STATUS_DEMO == "DEMO MODE - No USRP hardware detected"
STATUS_CONNECTED == "MOCK USRP connected (demo mode)"
STATUS_STARTED == "Mock streaming started (demo mode)"
STATUS_STOPPED == "Streaming stopped"

\* f32 literals of the source
Lit05 == Ratio(5, 10)
Lit005 == Ratio(5, 100)
Lit07 == Ratio(7, 10)
Lit03 == Ratio(3, 10)
Lit08 == Ratio(8, 10)
Lit002 == Ratio(2, 100)
Lit003 == Ratio(3, 100)
Lit01 == Ratio(1, 10)
Lit02 == Ratio(2, 10)
Lit2 == Ratio(2, 1)
\* std::f32::consts::PI = 0x40490FDB
PI_F32 == F32Pack(0, 13176795, -22)

(***************************************************************************)
(* Bounds of the model                                                     *)
(***************************************************************************)
\* key events dispatched in one run of Spec
MaxKeys == 5

\* key events dispatched in one run of SpecAdjust
MaxAdjustKeys == 2

\* toggle-streaming keys dispatched in one run of SpecToggle
MaxToggles == 6

\* key events dispatched in one run of SpecScenario (one up, then downs:
\* enough to bring the frequency from FREQ_INIT + 1 down to FREQ_MIN and past it)
MaxScenarioKeys == 895

\* SpecQueue: events pending in the terminal's input queue, and events in one run
MaxPending == 2
MaxQueueKeys == 3
MaxFaultKeys == 2

\* SpecTimed: key events dispatched in one run, and the time since last_tick up
\* to which time is counted
MaxTimedKeys == 2

\* toggle-streaming keys dispatched in one run of SpecTick
MaxTickKeys == 2
MaxElapsed == 12

(***************************************************************************)
(* The random source.  rand::random::<f32>() returns k * 2^-24 for a       *)
(* uniformly drawn 24-bit k, so a value in [0, 1).  One call of a          *)
(* generator function consumes a run of draws; the run is one of           *)
(* NumStreams streams over DrawValues, chosen nondeterministically.        *)
(***************************************************************************)
NumStreams == 2

Streams == 1..NumStreams

\* 24-bit draws: both ends of the range, the middle, and values next to them
DrawValues == <<0, 2^24 - 1, 2^23, 2^24 - 5, 1, 2^22 + 12345>>

\* the draws as f32 values k * 2^-24
RandTable == [k \in 1..Len(DrawValues) |-> FromInt(DrawValues[k], -24)] \o <<>>

\* the n-th draw (n = 0, 1, ...) of stream s, as an f32
Rand(s, n) == RandTable[((s - 1 + n) % Len(DrawValues)) + 1]

(***************************************************************************)
(* State                                                                   *)
(***************************************************************************)
VARIABLES
  should_quit, current_tab, frequency, sample_rate, gain, is_streaming,
  status_message, spectrum_data, sample_buffer,   \* struct App
  pc,          \* where main / run_tui / run_app stands
  event,       \* run_app: the event read in this iteration ("none": none yet)
  input,       \* terminal: the events that arrived and are not read yet
  raw_mode,    \* terminal: raw mode enabled
  alt_screen,  \* terminal: alternate screen entered
  res,         \* run_tui's "res": "none", "ok" or "err"
  failed,      \* the terminal operation that returned Err, or "none"
  exit_code,   \* the process's exit status once pc = "exited", else -1
  keys,        \* history: number of key events dispatched so far
  start_batches, \* history: the batches mock_stream_samples produced, in order
  toggles,     \* history: number of toggle-streaming keys dispatched so far
  ticks,       \* history: calls of simulate_streaming_data that generated data
               \* in the current loop iteration
  elapsed,     \* run_app: the time since last_tick was set, last_tick.elapsed()
  waited,      \* the time the poll of the current iteration has waited
  slept        \* the time the throttle slept before the render to come

app_vars == <<should_quit, current_tab, frequency, sample_rate, gain,
              is_streaming, status_message, spectrum_data, sample_buffer>>

term_vars == <<raw_mode, alt_screen, res, failed, exit_code>>

time_vars == <<elapsed, waited, slept>>

vars == <<should_quit, current_tab, frequency, sample_rate, gain, is_streaming,
          status_message, spectrum_data, sample_buffer, pc, event, input,
          raw_mode, alt_screen, res, failed, exit_code, keys, start_batches,
          toggles, ticks, elapsed, waited, slept>>

(***************************************************************************)
(* Signal generation                                                       *)
(***************************************************************************)
\* a Complex32 built as Complex32::new(amp * phase.cos(), amp * phase.sin())
Polar(amp, phase) == [amp |-> amp, phase |-> phase]

\* MockSample with "magnitude = 0.5 + rand" (the "* 0.5" forgotten)
MockSampleUnscaled(s, j) ==
  LET phase     == Mul(Mul(Rand(s, 2 * j), PI_F32), Lit2)
      magnitude == Add(Lit05, Rand(s, 2 * j + 1))
  IN Polar(magnitude, phase)

\* mock_stream_samples, one pass of the loop body: draws 2j and 2j+1 of stream s
MockSample(s, j) ==
  LET phase     == Mul(Mul(Rand(s, 2 * j), PI_F32), Lit2)
      magnitude == Add(Lit05, Mul(Rand(s, 2 * j + 1), Lit05))
  IN Polar(magnitude, phase)

\* mock_stream_samples: clear(), then START_BATCH pushes
MockBatch(s) == [j \in 1..START_BATCH |-> MockSample(s, j - 1)]

\* the batches by stream, each as an explicit tuple
MockBatches == [s \in Streams |-> MockBatch(s) \o <<>>]

MockStreamSamples(s) == MockBatches[s]

\* simulate_streaming_data: "freq = i as f32 / len as f32" of bin i (index i + 1)
BinFreq == [i \in 1..SPECTRUM_LEN |-> Ratio(i - 1, SPECTRUM_LEN)] \o <<>>

\* Noise with the factor 0.1
NoiseUnreduced(r) == Mul(Sub(r, Lit05), Lit01)

\* simulate_streaming_data: "noise = (rand::random::<f32>() - 0.5) * 0.05"
Noise(r) == Mul(Sub(r, Lit05), Lit005)

NoiseTable == [k \in 1..Len(DrawValues) |-> Noise(RandTable[k])] \o <<>>

\* the noise of the n-th draw of stream s
NoiseAt(s, n) == NoiseTable[((s - 1 + n) % Len(DrawValues)) + 1]

\* simulate_streaming_data: "center_freq = (app.frequency / 1e9) as f32"
CenterFreq(freq_mhz) == Ratio(freq_mhz, 1000)

\* "if (freq - c).abs() < w { a } else { 0.0 }"
Peak(freq, c, w, a) == IF Less(Abs(Sub(freq, c)), w) THEN a ELSE F32Zero

\* signal3 of bin i (index i + 1): it does not depend on the App
Signal3 == [i \in 1..SPECTRUM_LEN |-> Peak(BinFreq[i], Lit08, Lit002, Lit03)] \o <<>>

\* SpectrumBin without the ".min(1.0)"
SpectrumBinNoMin(center_freq, center2, s, i) ==
  LET freq    == BinFreq[i + 1]
      noise   == NoiseAt(s, i)
      signal1 == Peak(freq, center_freq, Lit005, Lit07)
      signal2 == Peak(freq, center2, Lit003, Lit05)
      signal3 == Signal3[i + 1]
      signal  == Add(Add(signal1, signal2), signal3)
  IN FMax(Add(signal, noise), F32Zero)

\* simulate_streaming_data, spectrum loop body for bin i, given center_freq and
\* center_freq + 0.1; the bin's draw is draw i of stream s
SpectrumBin(center_freq, center2, s, i) ==
  LET freq    == BinFreq[i + 1]
      noise   == NoiseAt(s, i)
      signal1 == Peak(freq, center_freq, Lit005, Lit07)
      signal2 == Peak(freq, center2, Lit003, Lit05)
      signal3 == Signal3[i + 1]
      signal  == Add(Add(signal1, signal2), signal3)
  IN FMin(FMax(Add(signal, noise), F32Zero), F32One)

\* simulate_streaming_data, the spectrum loop over 0..len
SimSpectrum(freq_mhz, s) ==
  LET center_freq == CenterFreq(freq_mhz)
      center2     == Add(center_freq, Lit01)
  IN [i \in 1..SPECTRUM_LEN |-> SpectrumBin(center_freq, center2, s, i - 1)]

\* the parameter values SpecAdjust starts from: at the clamps and away from them
FreqSamples == {FREQ_MIN, FREQ_INIT, FREQ_MAX}
GainSamples == {GAIN_MIN, GAIN_INIT, GAIN_MAX}
RateSamples == {RATE_MIN, RATE_INIT, RATE_MAX}

\* the frequencies SpecToggle starts from: the clamps, the initial value,
\* 800 MHz, where center_freq is 0.8 and signal1 lies on top of signal3,
\* 75 MHz, where bin 64 (freq 0.125) is 0.05 away from the center 0.075, and
\* 1050 MHz, the first center 0.05 beyond the last bin's end
TickFreqs == {FREQ_MIN, 75, 800, FREQ_INIT, 1050, FREQ_MAX}

\* the frequencies a run of Spec, SpecAdjust or SpecToggle can reach
TabulatedFreqs ==
  {f \in FREQ_MIN..FREQ_MAX :
     \/ f \in (FREQ_INIT - MaxKeys * FREQ_STEP)..(FREQ_INIT + MaxKeys * FREQ_STEP)
     \/ \E g \in FreqSamples :
          f \in (g - MaxAdjustKeys * FREQ_STEP)..(g + MaxAdjustKeys * FREQ_STEP)
     \/ f \in TickFreqs}

\* SimSpectrum tabulated once over those frequencies
SpectrumTable ==
  [f \in TabulatedFreqs |-> [s \in Streams |-> SimSpectrum(f, s) \o <<>>]]

\* SimSpectrum(freq_mhz, s), read from the table where it is tabulated
SimSpectrumAt(freq_mhz, s) ==
  IF freq_mhz \in DOMAIN SpectrumTable
    THEN SpectrumTable[freq_mhz][s]
    ELSE SimSpectrum(freq_mhz, s)

\* simulate_streaming_data, sample loop body: the draws follow the SPECTRUM_LEN
\* draws of the spectrum loop, three per sample
TickSample(s, j) ==
  LET base            == SPECTRUM_LEN + 3 * j
      phase_noise     == Mul(Rand(s, base), Lit01)
      amplitude_noise == Mul(Rand(s, base + 1), Lit02)
      base_amplitude  == Add(Lit08, amplitude_noise)
      phase           == Add(Mul(Mul(Rand(s, base + 2), PI_F32), Lit2), phase_noise)
  IN Polar(base_amplitude, phase)

\* TickBatch without the clear(): the pushes land behind what a start left
TickBatchNoClear(s) ==
  [j \in 1..(START_BATCH + TICK_BATCH) |->
     IF j <= START_BATCH THEN MockSample(s, j - 1)
                         ELSE TickSample(s, j - START_BATCH - 1)]

\* simulate_streaming_data: clear(), then TICK_BATCH pushes
TickBatch(s) == [j \in 1..TICK_BATCH |-> TickSample(s, j - 1)]

\* the batches by stream, each as an explicit tuple
TickBatches == [s \in Streams |-> TickBatch(s) \o <<>>]

SimSamples(s) == TickBatches[s]

(***************************************************************************)
(* impl App                                                                *)
(***************************************************************************)
\* Clamp without the ".max(lo)"
ClampNoLower(x, lo, hi) == IF x > hi THEN hi ELSE x

\* Clamp without the ".min(hi)"
ClampNoUpper(x, lo, hi) == IF x < lo THEN lo ELSE x

\* x.max(lo).min(hi)
Clamp(x, lo, hi) ==
  LET a == IF x < lo THEN lo ELSE x
  IN IF a > hi THEN hi ELSE a

\* NextTab with the wrong modulus
NextTabMod4(t) == (t + 1) % 4

\* on_key, KeyCode::Tab and KeyCode::Right
NextTab(t) == (t + 1) % NUM_TABS

\* on_key, KeyCode::Left
PrevTab(t) == IF t = 0 THEN 2 ELSE t - 1

\* adjust_parameter whose arm for tab 1 also runs the arm for tab 0
AdjustParameterFallsThrough(increase) ==
  LET delta == IF increase THEN 1 ELSE -1
  IN /\ frequency' = IF current_tab \in {0, 1}
                       THEN Clamp(frequency + delta * FREQ_STEP, FREQ_MIN, FREQ_MAX)
                       ELSE frequency
     /\ gain' = IF current_tab = 1
                  THEN Clamp(gain + delta * GAIN_STEP, GAIN_MIN, GAIN_MAX)
                  ELSE gain
     /\ sample_rate' = IF current_tab = 2
                         THEN Clamp(sample_rate + delta * RATE_STEP, RATE_MIN, RATE_MAX)
                         ELSE sample_rate
     /\ UNCHANGED <<should_quit, current_tab, is_streaming, status_message,
                    spectrum_data, sample_buffer>>

\* adjust_parameter
AdjustParameter(increase) ==
  LET delta == IF increase THEN 1 ELSE -1
  IN /\ frequency' = IF current_tab = 0
                       THEN Clamp(frequency + delta * FREQ_STEP, FREQ_MIN, FREQ_MAX)
                       ELSE frequency
     /\ gain' = IF current_tab = 1
                  THEN Clamp(gain + delta * GAIN_STEP, GAIN_MIN, GAIN_MAX)
                  ELSE gain
     /\ sample_rate' = IF current_tab = 2
                         THEN Clamp(sample_rate + delta * RATE_STEP, RATE_MIN, RATE_MAX)
                         ELSE sample_rate
     /\ UNCHANGED <<should_quit, current_tab, is_streaming, status_message,
                    spectrum_data, sample_buffer>>

\* start_streaming whose mock_stream_samples does not clear() the buffer
StartStreamingAppends(s) ==
  /\ is_streaming' = TRUE
  /\ status_message' = STATUS_STARTED
  /\ sample_buffer' = sample_buffer \o MockStreamSamples(s)
  /\ UNCHANGED <<should_quit, current_tab, frequency, sample_rate, gain,
                 spectrum_data>>

\* start_streaming, with mock_stream_samples drawing from stream s
StartStreaming(s) ==
  /\ is_streaming' = TRUE
  /\ status_message' = STATUS_STARTED
  /\ sample_buffer' = MockStreamSamples(s)
  /\ UNCHANGED <<should_quit, current_tab, frequency, sample_rate, gain,
                 spectrum_data>>

\* stop_streaming that also clears the sample buffer
StopStreamingClears ==
  /\ is_streaming' = FALSE
  /\ status_message' = STATUS_STOPPED
  /\ sample_buffer' = <<>>
  /\ UNCHANGED <<should_quit, current_tab, frequency, sample_rate, gain,
                 spectrum_data>>

\* stop_streaming that leaves is_streaming as it is
StopStreamingKeepsFlag ==
  /\ status_message' = STATUS_STOPPED
  /\ UNCHANGED <<should_quit, current_tab, frequency, sample_rate, gain,
                 is_streaming, spectrum_data, sample_buffer>>

\* stop_streaming
StopStreaming ==
  /\ is_streaming' = FALSE
  /\ status_message' = STATUS_STOPPED
  /\ UNCHANGED <<should_quit, current_tab, frequency, sample_rate, gain,
                 spectrum_data, sample_buffer>>

\* the key codes told apart by on_key; "x" stands for every other key
AllKeys == {"q", "Esc", "Tab", "Right", "Left", "c", "s", "Up", "Down", "x"}

\* on_key whose 'c' arm also sets is_streaming
OnKeyConnectStreams(key, s) ==
  CASE key \in {"q", "Esc"} ->
         /\ should_quit' = TRUE
         /\ UNCHANGED <<current_tab, frequency, sample_rate, gain, is_streaming,
                        status_message, spectrum_data, sample_buffer>>
    [] key \in {"Tab", "Right"} ->
         /\ current_tab' = NextTab(current_tab)
         /\ UNCHANGED <<should_quit, frequency, sample_rate, gain, is_streaming,
                        status_message, spectrum_data, sample_buffer>>
    [] key = "Left" ->
         /\ current_tab' = PrevTab(current_tab)
         /\ UNCHANGED <<should_quit, frequency, sample_rate, gain, is_streaming,
                        status_message, spectrum_data, sample_buffer>>
    [] key = "c" ->
         /\ status_message' = STATUS_CONNECTED
         /\ is_streaming' = TRUE
         /\ UNCHANGED <<should_quit, current_tab, frequency, sample_rate, gain,
                        spectrum_data, sample_buffer>>
    [] key = "s" ->
         IF is_streaming THEN StopStreaming ELSE StartStreaming(s)
    [] key = "Up" -> AdjustParameter(TRUE)
    [] key = "Down" -> AdjustParameter(FALSE)
    [] OTHER -> UNCHANGED app_vars

\* on_key(key); s is the random stream a start of streaming draws from
OnKey(key, s) ==
  CASE key \in {"q", "Esc"} ->
         /\ should_quit' = TRUE
         /\ UNCHANGED <<current_tab, frequency, sample_rate, gain, is_streaming,
                        status_message, spectrum_data, sample_buffer>>
    [] key \in {"Tab", "Right"} ->
         /\ current_tab' = NextTab(current_tab)
         /\ UNCHANGED <<should_quit, frequency, sample_rate, gain, is_streaming,
                        status_message, spectrum_data, sample_buffer>>
    [] key = "Left" ->
         /\ current_tab' = PrevTab(current_tab)
         /\ UNCHANGED <<should_quit, frequency, sample_rate, gain, is_streaming,
                        status_message, spectrum_data, sample_buffer>>
    [] key = "c" ->
         /\ status_message' = STATUS_CONNECTED
         /\ UNCHANGED <<should_quit, current_tab, frequency, sample_rate, gain,
                        is_streaming, spectrum_data, sample_buffer>>
    [] key = "s" ->
         IF is_streaming THEN StopStreaming ELSE StartStreaming(s)
    [] key = "Up" -> AdjustParameter(TRUE)
    [] key = "Down" -> AdjustParameter(FALSE)
    [] OTHER -> UNCHANGED app_vars

\* simulate_streaming_data(app), drawing from stream s
SimulateStreamingData(s) ==
  IF ~is_streaming
    THEN UNCHANGED app_vars
    ELSE /\ spectrum_data' = SimSpectrumAt(frequency, s)
         /\ sample_buffer' = SimSamples(s)
         /\ UNCHANGED <<should_quit, current_tab, frequency, sample_rate, gain,
                        is_streaming, status_message>>

\* the App as a record of its fields
AppState ==
  [should_quit |-> should_quit, current_tab |-> current_tab,
   frequency |-> frequency, sample_rate |-> sample_rate, gain |-> gain,
   is_streaming |-> is_streaming, status_message |-> status_message,
   spectrum_data |-> spectrum_data, sample_buffer |-> sample_buffer]

\* SimulateOn whose sample amplitudes are the code's only at the initial gain
SimulateOnScaled(app, s) ==
  IF ~app.is_streaming
    THEN app
    ELSE [app EXCEPT
            !.spectrum_data = SimSpectrumAt(app.frequency, s),
            !.sample_buffer =
               IF app.gain = GAIN_INIT
                 THEN SimSamples(s)
                 ELSE [j \in 1..TICK_BATCH |->
                         Polar(F32One, SimSamples(s)[j].phase)]]

\* simulate_streaming_data as a function of the App it is given and the random
\* stream s: the App it leaves behind
SimulateOn(app, s) ==
  IF ~app.is_streaming
    THEN app
    ELSE [app EXCEPT !.spectrum_data = SimSpectrumAt(app.frequency, s),
                     !.sample_buffer = SimSamples(s)]

(***************************************************************************)
(* Init: the terminal untouched, the App as App::new() builds it           *)
(***************************************************************************)
AppNew ==
  /\ should_quit = FALSE
  /\ current_tab = 0
  /\ frequency = FREQ_INIT
  /\ sample_rate = RATE_INIT
  /\ gain = GAIN_INIT
  /\ is_streaming = FALSE
  /\ status_message = STATUS_DEMO
  /\ spectrum_data = [i \in 1..SPECTRUM_LEN |-> F32Zero]
  /\ sample_buffer = <<>>

Init ==
  /\ AppNew
  /\ pc = "main"
  /\ event = "none"
  /\ input = <<>>
  /\ raw_mode = FALSE
  /\ alt_screen = FALSE
  /\ res = "none"
  /\ failed = "none"
  /\ exit_code = -1
  /\ keys = 0
  /\ start_batches = <<>>
  /\ ticks = 0
  /\ elapsed = 0
  /\ waited = 0
  /\ slept = 0
  /\ toggles = 0

(***************************************************************************)
(* main and run_tui                                                        *)
(***************************************************************************)
\* the process ends with the given status
Exit(code) ==
  /\ pc' = "exited"
  /\ exit_code' = code

\* main with a TTY on stdout: goes on to tui::run_tui()
MainTty ==
  /\ pc = "main"
  /\ pc' = "enable_raw"
  /\ UNCHANGED <<app_vars, term_vars, event, input, keys, start_batches,
                 toggles, ticks, time_vars>>

\* main without a TTY: prints the static summary and returns Ok(())
MainNoTty ==
  /\ pc = "main"
  /\ Exit(0)
  /\ UNCHANGED <<app_vars, raw_mode, alt_screen, res, failed, event, input,
                 keys,
                 start_batches, toggles, ticks, time_vars>>

\* run_tui: enable_raw_mode()? succeeds
EnableRaw ==
  /\ pc = "enable_raw"
  /\ raw_mode' = TRUE
  /\ pc' = "enter_screen"
  /\ UNCHANGED <<app_vars, alt_screen, res, failed, exit_code, event, input,
                 keys,
                 start_batches, toggles, ticks, time_vars>>

\* run_tui: execute!(stdout, EnterAlternateScreen, EnableMouseCapture)? succeeds
EnterScreen ==
  /\ pc = "enter_screen"
  /\ alt_screen' = TRUE
  /\ pc' = "new_terminal"
  /\ UNCHANGED <<app_vars, raw_mode, res, failed, exit_code, event, input, keys,
                 start_batches, toggles, ticks, time_vars>>

\* run_tui: Terminal::new(backend)? succeeds, App::new(), run_app is entered
NewTerminal ==
  /\ pc = "new_terminal"
  /\ pc' = "draw"
  /\ UNCHANGED <<app_vars, term_vars, event, input, keys, start_batches,
                 toggles, ticks, time_vars>>

\* run_tui: disable_raw_mode()? succeeds
DisableRaw ==
  /\ pc = "disable_raw"
  /\ raw_mode' = FALSE
  /\ pc' = "leave_screen"
  /\ UNCHANGED <<app_vars, alt_screen, res, failed, exit_code, event, input,
                 keys,
                 start_batches, toggles, ticks, time_vars>>

\* run_tui: execute!(.., LeaveAlternateScreen, DisableMouseCapture)? succeeds
LeaveScreen ==
  /\ pc = "leave_screen"
  /\ alt_screen' = FALSE
  /\ pc' = "show_cursor"
  /\ UNCHANGED <<app_vars, raw_mode, res, failed, exit_code, event, input, keys,
                 start_batches, toggles, ticks, time_vars>>

\* run_tui: terminal.show_cursor()? succeeds; "if let Err(err) = res" prints the
\* error, and Ok(()) is returned either way, so main returns Ok(())
ShowCursor ==
  /\ pc = "show_cursor"
  /\ Exit(0)
  /\ UNCHANGED <<app_vars, raw_mode, alt_screen, res, failed, event, input,
                 keys,
                 start_batches, toggles, ticks, time_vars>>

(***************************************************************************)
(* run_app: one loop iteration is draw, poll, stream, quit_check, pace     *)
(***************************************************************************)
LoopPcs == {"draw", "poll", "stream", "quit_check", "pace"}

\* Draw whose ui, holding app as &mut App, empties the sample batch it has shown
DrawTakesBatch ==
  /\ pc = "draw"
  /\ pc' = "poll"
  /\ sample_buffer' = <<>>
  /\ UNCHANGED <<should_quit, current_tab, frequency, sample_rate, gain,
                 is_streaming, status_message, spectrum_data>>
  /\ ticks' = 0
  /\ waited' = 0
  /\ slept' = 0
  /\ UNCHANGED <<term_vars, event, input, keys, start_batches, toggles,
                 elapsed>>

\* terminal.draw(|f| ui(f, app))? succeeds; ui only reads app. A new iteration
\* begins here.
Draw ==
  /\ pc = "draw"
  /\ pc' = "poll"
  /\ ticks' = 0
  /\ waited' = 0
  /\ slept' = 0
  /\ UNCHANGED <<app_vars, term_vars, event, input, keys, start_batches,
                 toggles,
                 elapsed>>

\* a poll without timeout: it returns only when an event is there
PollBlocks ==
  /\ pc = "poll"
  /\ input # <<>>
  /\ pc' = "stream"
  /\ UNCHANGED <<app_vars, term_vars, event, input, keys, start_batches,
                 toggles, ticks, time_vars>>

\* the smaller of two times
Earlier(a, b) == IF a < b THEN a ELSE b

\* poll(100 ms) returns Ok(false): no event within the timeout, the rest of
\* which has now passed
PollTimeout ==
  /\ pc = "poll"
  /\ input = <<>>
  /\ pc' = "stream"
  /\ elapsed' = Earlier(elapsed + (POLL_TIMEOUT - waited), MaxElapsed)
  /\ waited' = POLL_TIMEOUT
  /\ UNCHANGED <<app_vars, term_vars, event, input, keys, start_batches,
                 toggles, ticks,
                 slept>>

\* "if let Event::Key(key) = event::read()? { app.on_key(key.code) }" for the
\* event e: "other" is an event that is not a key event, and is dropped
ReadEvent(e) ==
  /\ event' = e
  /\ IF e = "other"
       THEN UNCHANGED <<app_vars, keys, start_batches, toggles, ticks,
                        time_vars>>
       ELSE /\ \E s \in Streams : OnKey(e, s)
            /\ keys' = keys + 1
            /\ start_batches' = IF e = "s" /\ ~is_streaming
                                  THEN Append(start_batches, sample_buffer')
                                  ELSE start_batches
            /\ toggles' = IF e = "s" THEN toggles + 1 ELSE toggles
            /\ UNCHANGED <<ticks, time_vars>>

\* poll returns Ok(true) for an event that is not a key event (mouse, resize)
\* arriving within the timeout
PollOther ==
  /\ pc = "poll"
  /\ input = <<>>
  /\ ReadEvent("other")
  /\ pc' = "stream"
  /\ UNCHANGED <<term_vars, input>>

\* poll returns Ok(true) for a key event of K arriving within the timeout
PollKey(K, max) ==
  /\ pc = "poll"
  /\ input = <<>>
  /\ keys < max
  /\ \E key \in K : ReadEvent(key)
  /\ pc' = "stream"
  /\ UNCHANGED <<term_vars, input>>

\* PollPending that takes the oldest event and discards the others pending
PollPendingDrain ==
  /\ pc = "poll"
  /\ input # <<>>
  /\ ReadEvent(Head(input))
  /\ input' = <<>>
  /\ pc' = "stream"
  /\ UNCHANGED term_vars

\* poll returns Ok(true) at once, an event being pending: read() takes the oldest
PollPending ==
  /\ pc = "poll"
  /\ input # <<>>
  /\ ReadEvent(Head(input))
  /\ input' = Tail(input)
  /\ pc' = "stream"
  /\ UNCHANGED term_vars

\* the terminal: an event of K, or one that is not a key event, arrives while the
\* loop runs and is queued
Arrive(K) ==
  /\ pc \in LoopPcs
  /\ Len(input) < MaxPending
  /\ keys + Len(input) < MaxQueueKeys
  /\ \E e \in K \cup {"other"} : input' = Append(input, e)
  /\ UNCHANGED <<app_vars, term_vars, pc, event, keys, start_batches, toggles,
                 ticks, time_vars>>

\* Stream with the quit check ahead of the tick
StreamUnlessQuit ==
  /\ pc = "stream"
  /\ IF is_streaming /\ ~should_quit
       THEN /\ \E s \in Streams : SimulateStreamingData(s)
            /\ ticks' = ticks + 1
       ELSE UNCHANGED <<app_vars, ticks>>
  /\ event' = "none"
  /\ pc' = "quit_check"
  /\ UNCHANGED <<term_vars, input, keys, start_batches, toggles, time_vars>>

\* "if app.is_streaming { simulate_streaming_data(app) }"; the event read in this
\* iteration is out of scope from here on
Stream ==
  /\ pc = "stream"
  /\ IF is_streaming
       THEN /\ \E s \in Streams : SimulateStreamingData(s)
            /\ ticks' = ticks + 1
       ELSE UNCHANGED <<app_vars, ticks>>
  /\ event' = "none"
  /\ pc' = "quit_check"
  /\ UNCHANGED <<term_vars, input, keys, start_batches, toggles, time_vars>>

\* QuitBreak without the break: the loop goes on to the throttle
QuitIgnored ==
  /\ pc = "quit_check"
  /\ should_quit
  /\ pc' = "pace"
  /\ UNCHANGED <<app_vars, term_vars, event, input, keys, start_batches,
                 toggles, ticks, time_vars>>

\* "if app.should_quit { break }": run_app returns Ok(())
QuitBreak ==
  /\ pc = "quit_check"
  /\ should_quit
  /\ res' = "ok"
  /\ pc' = "disable_raw"
  /\ UNCHANGED <<app_vars, raw_mode, alt_screen, failed, exit_code, event,
                 input,
                 keys, start_batches, toggles, ticks, time_vars>>

\* should_quit is false: on to the throttle
QuitContinue ==
  /\ pc = "quit_check"
  /\ ~should_quit
  /\ pc' = "pace"
  /\ UNCHANGED <<app_vars, term_vars, event, input, keys, start_batches,
                 toggles, ticks, time_vars>>

\* the throttle without its sleep
PaceNoSleep ==
  /\ pc = "pace"
  /\ pc' = "draw"
  /\ slept' = 0
  /\ elapsed' = 0
  /\ UNCHANGED <<app_vars, term_vars, event, input, keys, start_batches,
                 toggles, ticks,
                 waited>>

\* the throttle: "if elapsed < 50 ms { sleep(50 ms - elapsed) }", then
\* "last_tick = Instant::now()", and the next iteration
Pace ==
  /\ pc = "pace"
  /\ pc' = "draw"
  /\ slept' = IF elapsed < THROTTLE THEN THROTTLE - elapsed ELSE 0
  /\ elapsed' = 0
  /\ UNCHANGED <<app_vars, term_vars, event, input, keys, start_batches,
                 toggles, ticks,
                 waited>>

\* time passes while the loop renders, waits in poll (for an event, up to the
\* timeout), handles the event, or generates data
Elapse ==
  /\ pc \in LoopPcs
  /\ elapsed < MaxElapsed
  /\ pc = "poll" => waited < POLL_TIMEOUT
  /\ elapsed' = elapsed + 1
  /\ waited' = IF pc = "poll" THEN waited + 1 ELSE waited
  /\ UNCHANGED <<app_vars, term_vars, pc, event, input, keys, start_batches,
                 toggles,
                 ticks, slept>>

\* everything but the input: the steps of main, run_tui and run_app when every
\* terminal operation succeeds
Program ==
  \/ MainTty
  \/ MainNoTty
  \/ EnableRaw
  \/ EnterScreen
  \/ NewTerminal
  \/ Draw
  \/ PollTimeout
  \/ Stream
  \/ QuitBreak
  \/ QuitContinue
  \/ Pace
  \/ DisableRaw
  \/ LeaveScreen
  \/ ShowCursor

Next ==
  \/ Program
  \/ PollOther
  \/ PollKey(AllKeys, MaxKeys)

Spec == Init /\ [][Next]_vars

\* The program is one thread that always takes its next step: no call of the
\* loop blocks for ever (event::poll returns after 100 ms at the latest, the
\* throttle sleeps at most 50 ms). Key presses are the user's and are not
\* forced.
FairSpec == Spec /\ WF_vars(Program)

(***************************************************************************)
(* SpecAdjust: the loop entered with the parameters at or away from their  *)
(* clamps, on any tab (states a long enough run of up and down keys        *)
(* reaches)                                                                *)
(***************************************************************************)
InitAdjust ==
  /\ should_quit = FALSE
  /\ current_tab \in 0..(NUM_TABS - 1)
  /\ frequency \in FreqSamples
  /\ sample_rate \in RateSamples
  /\ gain \in GainSamples
  /\ is_streaming = FALSE
  /\ status_message = STATUS_DEMO
  /\ spectrum_data = [i \in 1..SPECTRUM_LEN |-> F32Zero]
  /\ sample_buffer = <<>>
  /\ pc = "draw"
  /\ event = "none"
  /\ input = <<>>
  /\ raw_mode = TRUE
  /\ alt_screen = TRUE
  /\ res = "none"
  /\ failed = "none"
  /\ exit_code = -1
  /\ keys = 0
  /\ start_batches = <<>>
  /\ ticks = 0
  /\ elapsed = 0
  /\ waited = 0
  /\ slept = 0
  /\ toggles = 0

NextAdjust ==
  \/ Draw
  \/ PollTimeout
  \/ PollOther
  \/ PollKey(AllKeys, MaxAdjustKeys)
  \/ Stream
  \/ QuitBreak
  \/ QuitContinue
  \/ Pace
  \/ DisableRaw
  \/ LeaveScreen
  \/ ShowCursor

SpecAdjust == InitAdjust /\ [][NextAdjust]_vars

(***************************************************************************)
(* SpecTick: the loop entered as in SpecAdjust, with the parameters at or  *)
(* away from their clamps and on any tab; the only key pressed is the      *)
(* toggle-streaming key                                                    *)
(***************************************************************************)
NextTick ==
  \/ Draw
  \/ PollTimeout
  \/ PollOther
  \/ PollKey({"s"}, MaxTickKeys)
  \/ Stream
  \/ QuitContinue
  \/ Pace

SpecTick == InitAdjust /\ [][NextTick]_vars

(***************************************************************************)
(* SpecFaults: the program with the calls at the terminal boundary allowed *)
(* to return Err; a run has at most one such failure, recorded in failed   *)
(***************************************************************************)
\* main: "tui::run_tui()?" with run_tui returning Err: main returns the Err and
\* the process ends with status 1
MainErr == Exit(1)

\* run_tui, line 130: enable_raw_mode()? returns Err; run_tui returns it
FailEnableRaw ==
  /\ pc = "enable_raw"
  /\ failed = "none"
  /\ failed' = "enable_raw_mode"
  /\ MainErr
  /\ UNCHANGED <<app_vars, raw_mode, alt_screen, res, event, input, keys,
                 start_batches, toggles, ticks, time_vars>>

\* run_tui, line 132: execute!(..)? returns Err (the escape sequence may or may
\* not have been written before the failure); run_tui returns it at once
FailEnterScreen ==
  /\ pc = "enter_screen"
  /\ failed = "none"
  /\ failed' = "enter_screen"
  /\ alt_screen' \in BOOLEAN
  /\ MainErr
  /\ UNCHANGED <<app_vars, raw_mode, res, event, input, keys, start_batches,
                 toggles, ticks, time_vars>>

\* run_tui, line 134: Terminal::new(backend)? returns Err; run_tui returns it
FailNewTerminal ==
  /\ pc = "new_terminal"
  /\ failed = "none"
  /\ failed' = "new_terminal"
  /\ MainErr
  /\ UNCHANGED <<app_vars, raw_mode, alt_screen, res, event, input, keys,
                 start_batches, toggles, ticks, time_vars>>

\* run_app, line 163: terminal.draw(..)? returns Err; run_app returns it into
\* res and run_tui goes on to restore the terminal
FailDraw ==
  /\ pc = "draw"
  /\ failed = "none"
  /\ failed' = "draw"
  /\ res' = "err"
  /\ pc' = "disable_raw"
  /\ UNCHANGED <<app_vars, raw_mode, alt_screen, exit_code, event, input, keys,
                 start_batches, toggles, ticks, time_vars>>

\* run_app, lines 166-167: event::poll(..)? or event::read()? returns Err
FailPoll ==
  /\ pc = "poll"
  /\ failed = "none"
  /\ failed' = "poll"
  /\ res' = "err"
  /\ pc' = "disable_raw"
  /\ UNCHANGED <<app_vars, raw_mode, alt_screen, exit_code, event, input, keys,
                 start_batches, toggles, ticks, time_vars>>

\* run_tui, line 141: disable_raw_mode()? returns Err
FailDisableRaw ==
  /\ pc = "disable_raw"
  /\ failed = "none"
  /\ failed' = "disable_raw_mode"
  /\ MainErr
  /\ UNCHANGED <<app_vars, raw_mode, alt_screen, res, event, input, keys,
                 start_batches, toggles, ticks, time_vars>>

\* run_tui, lines 142-146: execute!(.., LeaveAlternateScreen, ..)? returns Err
FailLeaveScreen ==
  /\ pc = "leave_screen"
  /\ failed = "none"
  /\ failed' = "leave_screen"
  /\ alt_screen' \in BOOLEAN
  /\ MainErr
  /\ UNCHANGED <<app_vars, raw_mode, res, event, input, keys, start_batches,
                 toggles, ticks, time_vars>>

\* run_tui, line 147: terminal.show_cursor()? returns Err
FailShowCursor ==
  /\ pc = "show_cursor"
  /\ failed = "none"
  /\ failed' = "show_cursor"
  /\ MainErr
  /\ UNCHANGED <<app_vars, raw_mode, alt_screen, res, event, input, keys,
                 start_batches, toggles, ticks, time_vars>>

Faults ==
  \/ FailEnableRaw
  \/ FailEnterScreen
  \/ FailNewTerminal
  \/ FailDraw
  \/ FailPoll
  \/ FailDisableRaw
  \/ FailLeaveScreen
  \/ FailShowCursor

NextFaults ==
  \/ Program
  \/ PollKey({"q", "s"}, MaxFaultKeys)
  \/ Faults

SpecFaults == Init /\ [][NextFaults]_vars

(***************************************************************************)
(* SpecQueue: the program with the terminal queueing the events that       *)
(* arrive while the loop is busy; event::read() takes them one at a time   *)
(***************************************************************************)
NextQueue ==
  \/ Program
  \/ Arrive(AllKeys)
  \/ PollPending

SpecQueue == Init /\ [][NextQueue]_vars

(***************************************************************************)
(* SpecTimed: the program with time passing between and during the steps   *)
(* of the loop (in the other specifications the steps take no time, only   *)
(* the poll timeout and the sleep do)                                      *)
(***************************************************************************)
NextTimed ==
  \/ Program
  \/ PollOther
  \/ PollKey({"s", "q"}, MaxTimedKeys)
  \/ Elapse

SpecTimed == Init /\ [][NextTimed]_vars

\* SpecTimed with the program always taking its next step: no call of the loop
\* blocks for ever (a poll that has waited POLL_TIMEOUT returns, the throttle
\* sleeps at most THROTTLE). Neither the key presses nor the passing of time
\* within a step are forced.
FairTimed == SpecTimed /\ WF_vars(Program)

(***************************************************************************)
(* SpecToggle: the loop entered on the Frequency tab with the frequency at *)
(* one of TickFreqs; the only key pressed is the toggle-streaming key      *)
(***************************************************************************)
InitToggle ==
  /\ should_quit = FALSE
  /\ current_tab = 0
  /\ frequency \in TickFreqs
  /\ sample_rate = RATE_INIT
  /\ gain = GAIN_INIT
  /\ is_streaming = FALSE
  /\ status_message = STATUS_DEMO
  /\ spectrum_data = [i \in 1..SPECTRUM_LEN |-> F32Zero]
  /\ sample_buffer = <<>>
  /\ pc = "draw"
  /\ event = "none"
  /\ input = <<>>
  /\ raw_mode = TRUE
  /\ alt_screen = TRUE
  /\ res = "none"
  /\ failed = "none"
  /\ exit_code = -1
  /\ keys = 0
  /\ start_batches = <<>>
  /\ ticks = 0
  /\ elapsed = 0
  /\ waited = 0
  /\ slept = 0
  /\ toggles = 0

NextToggle ==
  \/ Draw
  \/ PollTimeout
  \/ PollOther
  \/ PollKey({"s"}, MaxToggles)
  \/ Stream
  \/ QuitContinue
  \/ Pace

SpecToggle == InitToggle /\ [][NextToggle]_vars

(***************************************************************************)
(* SpecScenario: the program from its start, the keys pressed being one up *)
(* arrow and then down arrows only                                         *)
(***************************************************************************)
ScenarioKeys == IF keys = 0 THEN {"Up"} ELSE {"Down"}

NextScenario ==
  \/ MainTty
  \/ MainNoTty
  \/ EnableRaw
  \/ EnterScreen
  \/ NewTerminal
  \/ Draw
  \/ PollTimeout
  \/ PollKey(ScenarioKeys, MaxScenarioKeys)
  \/ Stream
  \/ QuitContinue
  \/ Pace

SpecScenario == Init /\ [][NextScenario]_vars

(***************************************************************************)
(* Claims                                                                  *)
(***************************************************************************)
\* the step that reads a key event and runs on_key on it
Dispatches(key) == pc = "poll" /\ pc' = "stream" /\ event' = key

ParamsInBounds ==
  /\ FREQ_MIN <= frequency /\ frequency <= FREQ_MAX
  /\ GAIN_MIN <= gain /\ gain <= GAIN_MAX
  /\ RATE_MIN <= sample_rate /\ sample_rate <= RATE_MAX

\* the value v of the selected parameter after an adjust from old by delta: v is
\* in [lo, hi], and is the bound the adjust would have crossed
BoundedAdjust(old, v, delta, lo, hi) ==
  /\ lo <= v /\ v <= hi
  /\ old + delta > hi => v = hi
  /\ old + delta < lo => v = lo

AdjustStaysInBounds(delta) ==
  /\ current_tab = 0 => BoundedAdjust(frequency, frequency', delta * FREQ_STEP,
                                      FREQ_MIN, FREQ_MAX)
  /\ current_tab = 1 => BoundedAdjust(gain, gain', delta * GAIN_STEP,
                                      GAIN_MIN, GAIN_MAX)
  /\ current_tab = 2 => BoundedAdjust(sample_rate, sample_rate', delta * RATE_STEP,
                                      RATE_MIN, RATE_MAX)

\* C1: in every reachable state 1e6 <= frequency <= 6e9, 0 <= gain <= 60 and
\* 1e5 <= sample_rate <= 1e7, whatever keys were dispatched; and an up or down key
\* on any tab, from any in-bounds value, yields an in-bounds value, the bound
\* itself when the adjust would cross it
C1_ParamBounds ==
  /\ []ParamsInBounds
  /\ [][/\ Dispatches("Up") => AdjustStaysInBounds(1)
        /\ Dispatches("Down") => AdjustStaysInBounds(-1)]_vars

\* a down key was dispatched on the Gain tab with the gain at its lower bound
\* (the one key of the run, so the gain started there), and the gain is still there
C1_Witness ==
  /\ keys = 1 /\ event = "Down" /\ current_tab = 1 /\ gain = GAIN_MIN

\* C2: the selected tab is always one of 0, 1, 2; a Tab or Right key moves it
\* one step round the cycle 0 -> 1 -> 2 -> 0 and a Left key one step the other way
\* (0 -> 2 wraps); from every tab three advances, three retreats, advance then
\* retreat and retreat then advance all come back to the tab
C2_TabGroup ==
  /\ [](/\ current_tab \in 0..2
        /\ NextTab(NextTab(NextTab(current_tab))) = current_tab
        /\ PrevTab(PrevTab(PrevTab(current_tab))) = current_tab
        /\ PrevTab(NextTab(current_tab)) = current_tab
        /\ NextTab(PrevTab(current_tab)) = current_tab)
  /\ [][/\ (Dispatches("Tab") \/ Dispatches("Right")) =>
             /\ current_tab = 2 => current_tab' = 0
             /\ current_tab < 2 => current_tab' = current_tab + 1
             /\ PrevTab(current_tab') = current_tab
             /\ NextTab(NextTab(current_tab')) = current_tab
        /\ Dispatches("Left") =>
             /\ current_tab = 0 => current_tab' = 2
             /\ current_tab > 0 => current_tab' = current_tab - 1
             /\ NextTab(current_tab') = current_tab
             /\ PrevTab(PrevTab(current_tab')) = current_tab]_vars

\* the first key of the run was Left, on tab 0, and wrapped to tab 2
C2_Witness == keys = 1 /\ event = "Left" /\ current_tab = 2

\* C3: a step that ends with is_streaming false (the stop key, and every loop step
\* and key after it until streaming is started again) leaves the spectrum frame and
\* the sample batch exactly as they were: stopping clears nothing and no simulator
\* tick runs while not streaming
C3_StopKeepsData ==
  [][~is_streaming' =>
       /\ spectrum_data' = spectrum_data
       /\ sample_buffer' = sample_buffer]_vars

\* an up key handled after streaming was started and stopped again: the spectrum
\* and the batch of the last tick are still there
C3_Witness ==
  /\ event = "Up" /\ ~is_streaming /\ status_message = STATUS_STOPPED
  /\ Len(sample_buffer) = TICK_BATCH
  /\ \E i \in 1..SPECTRUM_LEN : ~IsZero(spectrum_data[i])

\* lo <= a <= hi
InClosed(a, lo, hi) == LessEq(lo, a) /\ LessEq(a, hi)

\* C4: a toggle-streaming key handled while not streaming leaves is_streaming
\* true, the status text "streaming started" and exactly 100 samples in the batch,
\* whatever the batch held before, each of magnitude in [0.5, 1.0]
C4_StartYields100 ==
  [][(Dispatches("s") /\ ~is_streaming) =>
       /\ is_streaming'
       /\ status_message' = STATUS_STARTED
       /\ Len(sample_buffer') = START_BATCH
       /\ \A j \in 1..Len(sample_buffer') :
            InClosed(sample_buffer'[j].amp, Lit05, F32One)]_vars

\* streaming was just started for the second time (the batch held the 20 samples
\* of a tick before), and the batch holds 100 samples
C4_Witness ==
  /\ event = "s" /\ is_streaming /\ Len(start_batches) = 2
  /\ Len(sample_buffer) = START_BATCH

\* 512 values, each in [0.0, 1.0]
SpectrumInRange(sp) ==
  /\ Len(sp) = SPECTRUM_LEN
  /\ \A i \in 1..Len(sp) : InClosed(sp[i], F32Zero, F32One)

\* the spectrum frame has 512 values in [0.0, 1.0] in every state: it has in the
\* first state and has again after every step that changes it
SpectrumAlwaysInRange ==
  /\ SpectrumInRange(spectrum_data)
  /\ [][spectrum_data' = spectrum_data \/ SpectrumInRange(spectrum_data')]_vars

\* the step of run_app that runs simulate_streaming_data
Ticks == pc = "stream" /\ is_streaming /\ pc' = "quit_check"

\* C5 as stated: after every simulator tick the spectrum has 512 values in
\* [0.0, 1.0] and the batch exactly 20 samples, each of magnitude in [0.8, 1.0)
\* (1.0 excluded); the spectrum has 512 values in [0.0, 1.0] in every state
C5_Original ==
  /\ SpectrumAlwaysInRange
  /\ [][Ticks =>
          /\ SpectrumInRange(spectrum_data')
          /\ Len(sample_buffer') = TICK_BATCH
          /\ \A j \in 1..Len(sample_buffer') :
               /\ LessEq(Lit08, sample_buffer'[j].amp)
               /\ Less(sample_buffer'[j].amp, F32One)]_vars

\* C5 (amended): after every simulator tick the spectrum has 512 values in
\* [0.0, 1.0] and the batch exactly 20 samples, whatever it held before, each of
\* magnitude in [0.8, 1.0] (1.0 included: 0.8 + r * 0.2 rounds to 1.0 in f32 for
\* the largest draws r); the spectrum has 512 values in [0.0, 1.0] in every state
C5_TickRanges ==
  /\ SpectrumAlwaysInRange
  /\ [][Ticks =>
          /\ SpectrumInRange(spectrum_data')
          /\ Len(sample_buffer') = TICK_BATCH
          /\ \A j \in 1..Len(sample_buffer') :
               InClosed(sample_buffer'[j].amp, Lit08, F32One)]_vars

\* a tick ran right after a start (the batch held 100 samples) and left 20
\* samples, one of magnitude exactly 1.0, and a spectrum that is not all zero
C5_Witness ==
  /\ pc = "quit_check" /\ is_streaming /\ keys = 1
  /\ Len(sample_buffer) = TICK_BATCH
  /\ \E j \in 1..Len(sample_buffer) : sample_buffer[j].amp = F32One
  /\ \E i \in 1..SPECTRUM_LEN : ~IsZero(spectrum_data[i])
  /\ \E i \in 1..SPECTRUM_LEN : spectrum_data[i] = F32One

C7_ToggleTwice ==
  (pc = "stream" /\ event = "s" /\ keys >= 5 /\ keys % 2 = 1) =>
    LET n == Len(start_batches)
    IN /\ is_streaming
       /\ n = (keys + 1) \div 2
       /\ Len(start_batches[n - 1]) = START_BATCH
       /\ Len(start_batches[n]) = START_BATCH
       /\ sample_buffer = start_batches[n]

\* the fifth toggle key was just handled, and the two starts of the last four
\* toggles drew different batches
C7_Witness ==
  /\ pc = "stream" /\ event = "s" /\ keys = 5 /\ is_streaming
  /\ Len(start_batches) = 3
  /\ start_batches[2] # start_batches[3]
  /\ sample_buffer = start_batches[3]

\* C8: the quit keys (q, Esc) set the quit flag and change nothing else of the
\* application state; the flag, once set, is never cleared; while it is set the
\* loop never renders, polls or paces again (the iteration that handled the key
\* is the last one); and once it is set the loop is eventually left
QuitKeySetsFlagOnly ==
  [][(Dispatches("q") \/ Dispatches("Esc")) =>
       /\ should_quit'
       /\ UNCHANGED <<current_tab, frequency, sample_rate, gain, is_streaming,
                      status_message, spectrum_data, sample_buffer>>]_vars

C8_QuitTerminates ==
  /\ QuitKeySetsFlagOnly
  /\ [][should_quit => should_quit']_vars
  /\ [](should_quit => pc \notin {"draw", "poll", "pace"})
  /\ (should_quit ~> pc \notin LoopPcs)

\* a quit key was handled while streaming, and the program has left the loop and
\* run to its end
C8_Witness ==
  /\ should_quit /\ is_streaming /\ event = "none"
  /\ pc = "exited" /\ res = "ok"

\* C9: whenever the program has ended after a failure to enter raw mode, to
\* enter the alternate screen, to render, or to poll or read input, raw mode is
\* off, the alternate screen has been left, and the exit status is not zero
BoundaryFailures == {"enable_raw_mode", "enter_screen", "draw", "poll"}

C9_FailuresRestoreAndFail ==
  (pc = "exited" /\ failed \in BoundaryFailures) =>
    /\ ~raw_mode
    /\ ~alt_screen
    /\ exit_code # 0

\* C9, the failures inside the loop: the terminal is restored, but the status
\* is zero
C9_RuntimeFailureExitsZero ==
  (pc = "exited" /\ failed \in {"draw", "poll"}) =>
    ~raw_mode /\ ~alt_screen /\ exit_code = 0

\* C9, the failure to enter the alternate screen: the status is not zero, but
\* raw mode is still on
C9_SetupFailureLeavesRaw ==
  (pc = "exited" /\ failed = "enter_screen") => raw_mode /\ exit_code = 1

\* the transition table, one row per key: what the key changes, everything else
\* of the application state staying as it is
Between(x, lo, hi) == IF x < lo THEN lo ELSE IF x > hi THEN hi ELSE x

RowAdjust(d) ==
  /\ frequency' = IF current_tab = 0
                    THEN Between(frequency + d, 1, 6000) ELSE frequency
  /\ gain' = IF current_tab = 1 THEN Between(gain + d, 0, 60) ELSE gain
  /\ sample_rate' = IF current_tab = 2
                      THEN Between(sample_rate + d, 1, 100) ELSE sample_rate
  /\ UNCHANGED <<should_quit, current_tab, is_streaming, status_message,
                 spectrum_data, sample_buffer>>

RowEffect(key) ==
  CASE key \in {"q", "Esc"} ->
         /\ should_quit' = TRUE
         /\ UNCHANGED <<current_tab, frequency, sample_rate, gain, is_streaming,
                        status_message, spectrum_data, sample_buffer>>
    [] key \in {"Tab", "Right"} ->
         /\ current_tab' = (current_tab + 1) % 3
         /\ UNCHANGED <<should_quit, frequency, sample_rate, gain, is_streaming,
                        status_message, spectrum_data, sample_buffer>>
    [] key = "Left" ->
         /\ current_tab' = (current_tab - 1) % 3
         /\ UNCHANGED <<should_quit, frequency, sample_rate, gain, is_streaming,
                        status_message, spectrum_data, sample_buffer>>
    [] key = "c" ->
         /\ status_message' = "MOCK USRP connected (demo mode)"
         /\ UNCHANGED <<should_quit, current_tab, frequency, sample_rate, gain,
                        is_streaming, spectrum_data, sample_buffer>>
    [] key = "s" ->
         /\ is_streaming' = ~is_streaming
         /\ status_message' = IF is_streaming
                                THEN "Streaming stopped"
                                ELSE "Mock streaming started (demo mode)"
         /\ IF is_streaming
              THEN sample_buffer' = sample_buffer
              ELSE Len(sample_buffer') = 100
         /\ UNCHANGED <<should_quit, current_tab, frequency, sample_rate, gain,
                        spectrum_data>>
    [] key = "Up" -> RowAdjust(1)
    [] key = "Down" -> RowAdjust(-1)
    [] OTHER -> UNCHANGED app_vars

\* C10: events leave the terminal's queue only in the poll step of the loop, one
\* per iteration and the oldest first; the event read is handled in that same
\* step, before any other is read; a key changes the application state by exactly
\* its row of the transition table, an event that is not a key changes nothing;
\* and no other step of the program applies a key's effect
C10_OneMutationPerEvent ==
  /\ [](pc \in {"draw", "poll"} => event = "none")
  /\ [][input' # input =>
         \/ /\ \E e \in AllKeys \cup {"other"} : input' = Append(input, e)
            /\ UNCHANGED <<app_vars, pc, event, keys>>
         \/ /\ pc = "poll" /\ pc' = "stream" /\ input # <<>>
            /\ input' = Tail(input)
            /\ event' = Head(input)]_vars
  /\ [][event' # event =>
         \/ pc = "poll" /\ pc' = "stream" /\ event = "none"
         \/ pc = "stream" /\ pc' = "quit_check" /\ event' = "none"]_vars
  /\ [][(pc = "poll" /\ pc' = "stream") =>
         IF event' = "none"
           THEN UNCHANGED <<app_vars, keys, input>>
           ELSE /\ RowEffect(event')
                /\ keys' = IF event' \in AllKeys THEN keys + 1 ELSE keys]_vars
  /\ [][~(pc = "poll" /\ pc' = "stream") =>
         UNCHANGED <<should_quit, current_tab, frequency, sample_rate, gain,
                     is_streaming, status_message, keys>>]_vars

\* Tab, Up and Left arrived in this order, Tab and Up pending together: Tab was
\* handled first (tab 1 selected), then Up in the next iteration (raising the
\* gain, not the frequency), and Left is still waiting
C10_Witness ==
  /\ pc = "stream" /\ event = "Up" /\ keys = 2
  /\ current_tab = 1 /\ gain = GAIN_INIT + GAIN_STEP /\ frequency = FREQ_INIT
  /\ input = <<"Left">>

\* C11: an up or down arrow changes only the parameter of the selected tab, to
\* clamp(current + step, min, max) for up and clamp(current - step, min, max) for
\* down, the steps being 1 MHz, 1 dB and 0.1 MS/s and the ranges 1 MHz..6 GHz,
\* 0..60 dB and 0.1..10 MS/s; the two other parameters, the selected tab, the
\* streaming flag, the status text, the quit flag, the spectrum frame and the
\* sample batch are unchanged
AdjustedTo(old, new, d, lo, hi) ==
  new = (IF old + d < lo THEN lo ELSE IF old + d > hi THEN hi ELSE old + d)

AdjustFrame(sign) ==
  /\ current_tab = 0 =>
       /\ AdjustedTo(frequency, frequency', sign * 1, 1, 6000)
       /\ UNCHANGED <<gain, sample_rate>>
  /\ current_tab = 1 =>
       /\ AdjustedTo(gain, gain', sign * 1, 0, 60)
       /\ UNCHANGED <<frequency, sample_rate>>
  /\ current_tab = 2 =>
       /\ AdjustedTo(sample_rate, sample_rate', sign * 1, 1, 100)
       /\ UNCHANGED <<frequency, gain>>
  /\ UNCHANGED <<current_tab, is_streaming, status_message, should_quit,
                 spectrum_data, sample_buffer>>

C11_AdjustFrame ==
  [][/\ Dispatches("Up") => AdjustFrame(1)
     /\ Dispatches("Down") => AdjustFrame(-1)]_vars

\* a down arrow on the Gain tab was handled while streaming, after a tick had
\* filled the spectrum and the batch: the gain went from 20 dB to 19 dB, the
\* frequency and the sample rate still have values they can only have started
\* with
C11_Witness ==
  /\ pc = "stream" /\ event = "Down" /\ keys = 2
  /\ current_tab = 1 /\ gain = GAIN_INIT - GAIN_STEP
  /\ frequency = FREQ_MAX /\ sample_rate = RATE_MIN
  /\ is_streaming /\ Len(sample_buffer) = TICK_BATCH

\* C12: the connect key sets the status text to the connected message and changes
\* nothing else, the streaming flag included; a key that has no row in the table
\* changes nothing at all; Tab, Right and Left change nothing but the selected
\* tab
C12_KeyFrames ==
  [][/\ Dispatches("c") =>
          /\ status_message' = "MOCK USRP connected (demo mode)"
          /\ UNCHANGED <<frequency, sample_rate, gain, current_tab,
                         is_streaming,
                         should_quit, spectrum_data, sample_buffer>>
     /\ Dispatches("x") => UNCHANGED app_vars
     /\ (Dispatches("Tab") \/ Dispatches("Right") \/ Dispatches("Left")) =>
          UNCHANGED <<frequency, sample_rate, gain, is_streaming,
                      status_message,
                      should_quit, spectrum_data, sample_buffer>>]_vars

\* the connect key was handled with streaming off after streaming had been on:
\* the status text is the connected message, streaming is still off, and the
\* batch of the last tick is still there
C12_Witness ==
  /\ pc = "stream" /\ event = "c"
  /\ status_message = STATUS_CONNECTED
  /\ ~is_streaming /\ Len(sample_buffer) = TICK_BATCH

\* C13: the render step leaves every field of the application state unchanged;
\* an iteration starts with the render step (the loop is entered at it, and the
\* pacing step is followed by it), the render step is followed by the poll step,
\* and no other step of the iteration leads to it: one render per iteration, at
\* its start
C13_RenderReadsOnly ==
  /\ [][pc = "draw" => UNCHANGED app_vars]_vars
  /\ [][(pc = "draw" /\ pc' # "draw") => pc' = "poll"]_vars
  /\ [][(pc # "draw" /\ pc' = "draw") => pc \in {"new_terminal", "pace"}]_vars
  /\ [][(pc = "pace" /\ pc' # "pace") => pc' = "draw"]_vars

\* a render has just taken place while streaming, with the batch and the
\* spectrum of the last tick in the state; both are still there
C13_Witness ==
  /\ pc = "poll" /\ is_streaming /\ keys = 2
  /\ Len(sample_buffer) = TICK_BATCH
  /\ \E i \in 1..SPECTRUM_LEN : ~IsZero(spectrum_data[i])

\* C14: the steps of an iteration follow each other in the order render, poll
\* (with the dispatch of the event read), tick, quit check, pace, and the pace
\* step is followed by the next render; a key is dispatched in the poll step
\* only; the tick step runs exactly one simulator tick when the streaming flag is
\* set after the dispatch (whatever the quit flag says, and also right after the
\* start key) and changes nothing when it is not set (as after the stop key); no
\* other step replaces the spectrum frame
StepOrder ==
  {<<"draw", "poll">>, <<"poll", "stream">>, <<"stream", "quit_check">>,
   <<"quit_check", "pace">>, <<"quit_check", "disable_raw">>, <<"pace",
     "draw">>}

OneTick ==
  \E s \in Streams :
    /\ spectrum_data' = SimSpectrumAt(frequency, s)
    /\ sample_buffer' = SimSamples(s)
    /\ UNCHANGED <<should_quit, current_tab, frequency, sample_rate, gain,
                   is_streaming, status_message>>

C14_StepOrder ==
  /\ [][(pc \in LoopPcs /\ pc' # pc) => <<pc, pc'>> \in StepOrder]_vars
  /\ [][keys' # keys => (pc = "poll" /\ pc' = "stream")]_vars
  /\ [][(pc = "stream" /\ pc' = "quit_check") =>
         IF is_streaming THEN OneTick ELSE UNCHANGED app_vars]_vars
  /\ [](pc \in {"quit_check", "pace"} => ticks = (IF is_streaming THEN 1 ELSE 0))
  /\ [](pc \in {"poll", "stream"} => ticks = 0)
  /\ [][~(pc = "stream" /\ pc' = "quit_check") =>
         spectrum_data' = spectrum_data]_vars
  /\ [][(Dispatches("s") /\ is_streaming) =>
         (~is_streaming' /\ UNCHANGED <<spectrum_data, sample_buffer>>)]_vars

\* the tick step of the iteration that handled a quit key while streaming has
\* been taken: the quit flag is set, and the batch is a tick's batch
C14_Witness ==
  /\ pc = "quit_check" /\ should_quit /\ is_streaming /\ keys = 2
  /\ ticks = 1
  /\ Len(sample_buffer) = TICK_BATCH
  /\ \E s \in Streams : spectrum_data = SimSpectrumAt(frequency, s)

\* C15: the poll returns without an event, so the loop goes on without input: in
\* a run in which, from some point on, streaming is on, the quit flag is not set
\* and no event is read any more, the tick step generates data again and again
\* and the render step is taken again and again; and whenever a quit key has been
\* read, the loop is eventually left
C15_Progress ==
  /\ (<>[](is_streaming /\ ~should_quit /\ event = "none")) =>
       /\ []<>(pc = "quit_check" /\ ticks = 1)
       /\ []<>(pc = "poll" /\ ticks = 0)
  /\ (event \in {"q", "Esc"}) ~> (pc \notin LoopPcs)

\* the poll of an iteration returned without an event while streaming was on and
\* the batch of the previous iteration's tick was in the state
C15_Witness ==
  /\ pc = "stream" /\ event = "none" /\ ticks = 0
  /\ is_streaming /\ ~should_quit /\ Len(sample_buffer) = TICK_BATCH

\* C16: what a tick stores does not depend on gain, sample rate, selected tab or
\* status text: at every tick step, for every random stream, the spectrum frame
\* and the sample batch the tick produces from the current state are those it
\* produces from any state that has the same frequency and differs in these four
\* fields; and the tick step itself stores what it produces for one of the
\* streams
Variants(app) ==
  {[app EXCEPT !.gain = g, !.sample_rate = r, !.current_tab = tb,
               !.status_message = STATUS_CONNECTED] :
     g \in GainSamples, r \in RateSamples, tb \in 0..(NUM_TABS - 1)}

SameFrame(a, b) ==
  a.spectrum_data = b.spectrum_data /\ a.sample_buffer = b.sample_buffer

C16_TickIgnoresGainAndRate ==
  [][Ticks =>
       /\ \A s \in Streams : \A other \in Variants(AppState) :
            SameFrame(SimulateOn(AppState, s), SimulateOn(other, s))
       /\ \E s \in Streams : AppState' = SimulateOn(AppState, s)]_vars

\* a tick has run at 60 dB and 0.1 MS/s on the Sample Rate tab, and the frame it
\* stored is the one a tick at 890 MHz stores at the initial 20 dB and 1 MS/s
C16_Witness ==
  /\ pc = "quit_check" /\ ticks = 1
  /\ gain = GAIN_MAX /\ sample_rate = RATE_MIN /\ current_tab = 2
  /\ frequency = FREQ_INIT
  /\ \E s \in Streams :
       SameFrame(AppState,
                 SimulateOn([AppState EXCEPT !.gain = GAIN_INIT,
                                             !.sample_rate = RATE_INIT,
                                             !.current_tab = 0,
                                             !.status_message = STATUS_DEMO], s))

\* the bands of the three components for bin i (0-based) at freq_mhz, in exact
\* arithmetic: |i/512 - freq_mhz/1000| < 0.05, |i/512 - (freq_mhz/1000 + 0.1)| <
\* 0.03, |i/512 - 0.8| < 0.02, each multiplied by 512000
Dist(a, b) == IF a < b THEN b - a ELSE a - b

ExactBand1(i, freq_mhz) == Dist(1000 * i, 512 * freq_mhz) < 25600
ExactBand2(i, freq_mhz) == Dist(1000 * i, 512 * (freq_mhz + 100)) < 15360
ExactBand3(i) == Dist(1000 * i, 409600) < 10240

\* the same bands as single-precision comparisons on the single-precision
\* center
FloatBand(i, c, w) == Less(Abs(Sub(Ratio(i, 512), c)), w)
FloatBand1(i, freq_mhz) == FloatBand(i, Ratio(freq_mhz, 1000), Ratio(5, 100))
FloatBand2(i, freq_mhz) ==
  FloatBand(i, Add(Ratio(freq_mhz, 1000), Ratio(1, 10)), Ratio(3, 100))
FloatBand3(i) == FloatBand(i, Ratio(8, 10), Ratio(2, 100))

\* s1 + s2 + s3 for the bands b1, b2, b3
Components(b1, b2, b3) ==
  Add(Add(IF b1 THEN Ratio(7, 10) ELSE F32Zero,
          IF b2 THEN Ratio(5, 10) ELSE F32Zero),
      IF b3 THEN Ratio(3, 10) ELSE F32Zero)

\* 0.025 as a single-precision value (half the literal 0.05)
NoiseBound == Ratio(25, 1000)

Clamp01(x) == FMin(FMax(x, F32Zero), F32One)

\* the least and the greatest clamp(sum + noise, 0, 1) for a noise in
\* [-0.025, 0.025]
NoiseRange(sum) ==
  [lo |-> Clamp01(Sub(sum, NoiseBound)), hi |-> Clamp01(Add(sum, NoiseBound))]

\* for each frequency of TickFreqs and each bin, the range of its value with the
\* bands in exact arithmetic, and with the bands in single precision
ExactShape ==
  [f \in TickFreqs |->
     [i \in 1..SPECTRUM_LEN |->
        NoiseRange(Components(ExactBand1(i - 1, f), ExactBand2(i - 1, f),
                              ExactBand3(i - 1)))] \o <<>>]

FloatShape ==
  [f \in TickFreqs |->
     [i \in 1..SPECTRUM_LEN |->
        NoiseRange(Components(FloatBand1(i - 1, f), FloatBand2(i - 1, f),
                              FloatBand3(i - 1)))] \o <<>>]

\* every bin of the frame sp lies in its range of shape
HasShape(sp, shape) ==
  \A i \in 1..SPECTRUM_LEN :
    LessEq(shape[i].lo, sp[i]) /\ LessEq(sp[i], shape[i].hi)

\* every noise value the random streams give lies in [-0.025, 0.025]
NoiseInRange ==
  \A k \in 1..Len(NoiseTable) :
    LessEq(Neg(NoiseBound), NoiseTable[k]) /\ LessEq(NoiseTable[k], NoiseBound)

BackgroundLow == Sub(Ratio(3, 10), NoiseBound)
BackgroundHigh == Add(Ratio(3, 10), NoiseBound)

\* C17 as stated, the bands taken in exact arithmetic: after a tick every bin
\* holds clamp(s1 + s2 + s3 + noise, 0, 1) with noise in [-0.025, 0.025]
C17_Original ==
  [][(Ticks /\ frequency \in TickFreqs) =>
       HasShape(spectrum_data', ExactShape[frequency])]_vars

\* C17: after a tick every bin holds clamp(s1 + s2 + s3 + noise, 0, 1), where
\* the three band tests are evaluated in single precision on the center rounded
\* to single precision, and the noise lies between -0.025 and 0.025 (as
\* single-precision values); the bins 400..419 around 0.8 hold at least
\* 0.3 - 0.025 at every frequency; at 1050 MHz and above no bin holds more than
\* the background component and the noise
C17_SpectrumShape ==
  [][(Ticks /\ frequency \in TickFreqs) =>
       /\ HasShape(spectrum_data', FloatShape[frequency])
       /\ NoiseInRange
       /\ \A i \in 400..419 : LessEq(BackgroundLow, spectrum_data'[i + 1])
       /\ frequency >= 1050 =>
            \A i \in 0..(SPECTRUM_LEN - 1) :
              LessEq(spectrum_data'[i + 1],
                     IF i \in 400..419 THEN BackgroundHigh ELSE NoiseBound)]_vars

\* a tick has run at 75 MHz, and bin 64, exactly 0.05 above the center, holds
\* the first component
C17_Witness ==
  /\ pc = "quit_check" /\ ticks = 1 /\ frequency = 75
  /\ LessEq(NoiseRange(Ratio(7, 10)).lo, spectrum_data[65])

\* C18: times in units of 10 ms. The throttle step sleeps 50 ms minus the time
\* since the previous throttle step ended when that time is below 50 ms and does
\* not sleep otherwise, so that the ends of two consecutive throttle steps are at
\* least 50 ms apart; the poll of an iteration never waits more than 100 ms, and
\* it returns without an event only when it has waited 100 ms
C18_Pacing ==
  /\ [][(pc = "pace" /\ pc' = "draw") =>
         /\ slept' = (IF elapsed < 5 THEN 5 - elapsed ELSE 0)
         /\ elapsed + slept' >= 5
         /\ elapsed' = 0]_vars
  /\ [](waited <= 10)
  /\ [][(pc = "poll" /\ pc' = "stream") =>
         /\ elapsed' - elapsed <= 10 - waited
         /\ event' = "none" => waited' = 10]_vars

\* an iteration in which streaming was started took 30 ms up to the throttle,
\* and the throttle slept the remaining 20 ms
C18_Witness ==
  /\ pc = "draw" /\ slept = 2 /\ elapsed = 0 /\ waited = 1
  /\ is_streaming /\ keys = 1 /\ ticks = 1

\* C19: whenever the loop is about to render, the sample batch has 0 or 20
\* entries, and exactly 20 when the streaming flag is set; the batch of 100
\* entries lives only between the dispatch of the start key and the tick of the
\* same iteration
C19_RenderSeesTickBatch ==
  /\ [](pc = "draw" =>
          /\ Len(sample_buffer) \in {0, 20}
          /\ is_streaming => Len(sample_buffer) = 20)
  /\ [](Len(sample_buffer) = 100 => (pc = "stream" /\ event = "s"))

\* the loop is about to render after the iteration that handled the start key:
\* the start produced its batch of 100, and the batch now has 20 entries
C19_Witness ==
  /\ pc = "draw" /\ is_streaming /\ keys = 1
  /\ Len(start_batches) = 1 /\ Len(start_batches[1]) = START_BATCH
  /\ Len(sample_buffer) = TICK_BATCH

\* C20: the streaming flag changes only in the step that dispatches a toggle key,
\* and every such step flips it; so no other key, no event that is not a key, no
\* tick, no render and no other step changes it, and it is set exactly when the
\* number of toggle keys dispatched so far is odd
C20_StreamingParity ==
  /\ [][Dispatches("s") => is_streaming' = ~is_streaming]_vars
  /\ [][is_streaming' # is_streaming => Dispatches("s")]_vars
  /\ [](is_streaming <=> toggles % 2 = 1)

\* three toggle keys and two other keys were dispatched, ticks ran in between,
\* and streaming is on
C20_Witness ==
  /\ toggles = 3 /\ keys = 5 /\ is_streaming
  /\ pc = "quit_check" /\ ticks = 1
====
